---- MODULE Spec2Model ----
(***************************************************************************)
(* A model of zap-scripts/zap-baseline.py: the main() routine of the ZAP   *)
(* baseline scan, from option parsing to the process exit code.            *)
(*                                                                         *)
(* main() is one straight-line routine.  It is cut into steps at the       *)
(* places where it can leave early (sys.exit, an uncaught exception) or    *)
(* where an exception raised inside its try block (lines 281-397) is       *)
(* caught by one of the two handlers (lines 399-412); pc names the step    *)
(* that runs next.                                                         *)
(*                                                                         *)
(* The helpers imported from zap_common (load_config, zap_get_alerts,      *)
(* print_rules, inc_*_rules) are not part of the source file; they are     *)
(* modelled from the specification (sections 4.1-4.3 and 6).               *)
(*                                                                         *)
(* Rule ids are strings, as in the code.  A dict is a function whose       *)
(* DOMAIN is its key set.  The model does not follow the text printed on   *)
(* stdout, the min_level/detailed_output switches (they change printing    *)
(* only) nor the scope exclusions of the configuration (alerts drawn in    *)
(* GetAlerts are the in-scope ones).                                       *)
(***************************************************************************)
EXTENDS Integers, Sequences, FiniteSets, TLC

\* ---------------------------------------------------------------- bounds
\* longest rule registry returned by zap.pscan.scanners
MaxRules == 3
\* most alerts ZAP reports for one rule id
MaxAlerts == 2
\* most rule lines of a configuration file
MaxConfig == 1
\* most issues of a progress file
MaxIssues == 1

\* ------------------------------------------------------------ input pools
\* rule ids that are not in the deny list
RegularIds == {"10", "2"}
\* rule ids ZAP can report: the regular ones and one denied id
RuleIds == RegularIds \cup {"-1"}
\* len(zap.core.urls): zero, or some
UrlCounts == {0, 1}
\* states an issue of the progress file can be in
IssueStates == {"inprogress", "done"}
\* the ACTION column of a configuration line ("BOGUS" stands for a malformed one)
ConfigActions == {"IGNORE", "INFO", "WARN", "FAIL", "BOGUS"}

\* sequences over S of length at most n
SeqsUpTo(S, n) == UNION {[1..k -> S] : k \in 0..n}

\* the code points of a rule id (Python compares str by code point)
Chars(s) ==
  CASE s = "10" -> <<49, 48>>
    [] s = "2" -> <<50>>
    [] s = "-1" -> <<45, 49>>
    [] s = "50003" -> <<53, 48, 48, 48, 51>>
    [] s = "60000" -> <<54, 48, 48, 48, 48>>
    [] s = "60001" -> <<54, 48, 48, 48, 49>>

\* the name ZAP gives a rule
RuleName(id) ==
  CASE id = "10" -> "Cookie No HttpOnly Flag"
    [] id = "2" -> "Private IP Disclosure"
    [] id = "-1" -> "Example Passive Scanner"

\* a rule as zap.pscan.scanners returns it
Rule(id) == [id |-> id, name |-> RuleName(id)]

\* rule registries: ids are unique within a run
Registries ==
  {r \in SeqsUpTo({Rule(id) : id \in RuleIds}, MaxRules) :
     \A i, j \in 1..Len(r) : i # j => r[i].id # r[j].id}

\* configuration files: tab-separated lines, here the first two columns
ConfigFiles == SeqsUpTo([key : RegularIds, val : ConfigActions], MaxConfig)

\* progress files: the "issues" list
ProgressFiles == SeqsUpTo([id : RegularIds, state : IssueStates], MaxIssues)

\* what ZAP reports: the number of alerts per rule id
RawAlerts == [RuleIds -> 0..MaxAlerts]

\* -------------------------------------------------------- module globals
EmptyDict == [k \in {} |-> 0]

\* Pscan rules that aren't really relevant
blacklist == <<"-1", "50003", "60000", "60001">>

\* Python's `x in list`
InList(x, list) == \E i \in 1..Len(list) : list[i] = x

\* Python's str <
StrLess(a, b) ==
  LET x == Chars(a)
      y == Chars(b)
  IN \E i \in 1..(Len(x) + 1) :
       /\ \A j \in 1..(i - 1) : j <= Len(y) /\ x[j] = y[j]
       /\ \/ i <= Len(x) /\ i <= Len(y) /\ x[i] < y[i]
          \/ i = Len(x) + 1 /\ i <= Len(y)

\* sorted(keys): ascending in Python's str order
RECURSIVE SortedKeys(_)
SortedKeys(S) ==
  IF S = {} THEN <<>>
  ELSE LET m == CHOOSE k \in S : \A o \in S \ {k} : StrLess(k, o)
       IN <<m>> \o SortedKeys(S \ {m})

\* the sum of f over the keys S
RECURSIVE SumOver(_, _)
SumOver(f, S) ==
  IF S = {} THEN 0
  ELSE LET k == CHOOSE k \in S : TRUE
       IN f[k] + SumOver(f, S \ {k})

VARIABLES
  pc,                  \* the step of main() that runs next
  exit_code,           \* the process exit status, -1 while running
  exit_at,             \* where the process ended
  in_docker,           \* running_in_docker()
  info_unspecified,    \* -i
  config_dict,         \* rule id -> action
  in_progress_issues,  \* rule id -> issue
  zap_started,         \* ZAP was started (start_zap or start_docker_zap)
  container,           \* the docker container of cid: "none", "running", "stopped"
  num_urls,            \* len(zap.core.urls), -1 before it is read
  alert_dict,          \* rule id -> number of alerts
  all_rules,           \* zap.pscan.scanners
  gen_file,            \* the lines of the generated config file
  pass_count, warn_count, fail_count, info_count, ignore_count,
  warn_inprog_count, fail_inprog_count,
  failed,              \* an exception was caught by a handler of main
  load_failed          \* the config or progress source could not be loaded

counts == <<pass_count, warn_count, fail_count, info_count, ignore_count,
            warn_inprog_count, fail_inprog_count>>

inputs == <<in_docker, info_unspecified, config_dict, in_progress_issues>>

scan == <<num_urls, alert_dict, all_rules, gen_file>>

vars == <<pc, exit_code, exit_at, zap_started, container, failed, load_failed,
          inputs, scan, counts>>

Init ==
  /\ pc = "options"
  /\ exit_code = -1
  /\ exit_at = "running"
  /\ in_docker = FALSE
  /\ info_unspecified = FALSE
  /\ config_dict = EmptyDict
  /\ in_progress_issues = EmptyDict
  /\ zap_started = FALSE
  /\ container = "none"
  /\ num_urls = -1
  /\ alert_dict = EmptyDict
  /\ all_rules = <<>>
  /\ gen_file = <<>>
  /\ pass_count = 0
  /\ warn_count = 0
  /\ fail_count = 0
  /\ info_count = 0
  /\ ignore_count = 0
  /\ warn_inprog_count = 0
  /\ fail_inprog_count = 0
  /\ failed = FALSE
  /\ load_failed = FALSE

\* sys.exit(code), or the interpreter ending on an uncaught exception
Exit(code, where) ==
  /\ pc' = "exit"
  /\ exit_code' = code
  /\ exit_at' = where

\* an exception no handler of main catches: Python prints the traceback
\* and the process ends with status 1
UncaughtExit == Exit(1, "uncaught")

\* ------------------------------------------------ helpers of zap_common
\* d[k] = v
DictPut(d, k, v) == [x \in DOMAIN d \cup {k} |-> IF x = k THEN v ELSE d[x]]

\* load_config: every well-formed line sets the action of its rule id, a
\* line with an unknown action keyword is skipped
RECURSIVE load_config(_, _)
load_config(lines, dict) ==
  IF lines = <<>> THEN dict
  ELSE LET line == Head(lines)
       IN load_config(Tail(lines),
            IF line.val \in {"IGNORE", "INFO", "WARN", "FAIL"}
              THEN DictPut(dict, line.key, line.val)
              ELSE dict)

\* zap_get_alerts: the alerts grouped by rule id, without the denied ids
zap_get_alerts(raw, denied) ==
  [k \in {id \in DOMAIN raw : raw[id] > 0 /\ ~InList(id, denied)} |-> raw[k]]

inc_ignore_rules(dict, key, inc_extra) ==
  key \in DOMAIN dict /\ dict[key] = "IGNORE"

inc_info_rules(dict, key, inc_extra) ==
  \/ key \in DOMAIN dict /\ dict[key] = "INFO"
  \/ key \notin DOMAIN dict /\ inc_extra

inc_warn_rules(dict, key, inc_extra) ==
  \/ key \in DOMAIN dict /\ dict[key] = "WARN"
  \/ key \notin DOMAIN dict /\ inc_extra

inc_fail_rules(dict, key, inc_extra) ==
  key \in DOMAIN dict /\ dict[key] = "FAIL"

\* the inc_rule function main hands to print_rules for each level
inc_rule(level, dict, key, inc_extra) ==
  CASE level = "IGNORE" -> inc_ignore_rules(dict, key, inc_extra)
    [] level = "INFO" -> inc_info_rules(dict, key, inc_extra)
    [] level = "WARN" -> inc_warn_rules(dict, key, inc_extra)
    [] level = "FAIL" -> inc_fail_rules(dict, key, inc_extra)

\* the rule ids one category pass of print_rules includes
rules_included(alerts, dict, level, inc_extra) ==
  {key \in DOMAIN alerts : inc_rule(level, dict, key, inc_extra)}

\* print_rules: <<count, inprog_count>>, the findings of the included rules,
\* those of a rule id in in_progress counted as in progress, the others as new
print_rules(alerts, dict, level, inc_extra, in_progress) ==
  LET keys == rules_included(alerts, dict, level, inc_extra)
  IN <<SumOver(alerts, keys \ DOMAIN in_progress),
       SumOver(alerts, keys \cap DOMAIN in_progress)>>

\* ------------------------------------------------------ pieces of main()
\* the progress file's test of an issue
IsInProgress(issue) == issue.state = "inprogress"

\* in_prog_issues = map of vulnid -> issue
RECURSIVE LoadProgressIssues(_, _)
LoadProgressIssues(issues, dict) ==
  IF issues = <<>> THEN dict
  ELSE LET issue == Head(issues)
       IN LoadProgressIssues(Tail(issues),
            IF IsInProgress(issue) THEN DictPut(dict, issue.id, issue) ELSE dict)

\* the rule loops skip the denied ids
SkipRuleNever(plugin_id) == FALSE

SkipRule(plugin_id) == InList(plugin_id, blacklist)

\* all_dict: plugin id -> name, of the rules that are not denied
RECURSIVE AllDict(_, _)
AllDict(rules, dict) ==
  IF rules = <<>> THEN dict
  ELSE LET rule == Head(rules)
       IN AllDict(Tail(rules),
            IF SkipRule(rule.id) THEN dict ELSE DictPut(dict, rule.id, rule.name))

\* pass_dict: plugin id -> name, of the rules that are not denied and have
\* no entry in alert_dict
RECURSIVE PassDict(_, _, _)
PassDict(rules, alerts, dict) ==
  IF rules = <<>> THEN dict
  ELSE LET rule == Head(rules)
       IN PassDict(Tail(rules), alerts,
            IF SkipRule(rule.id) \/ rule.id \in DOMAIN alerts
              THEN dict ELSE DictPut(dict, rule.id, rule.name))

\* the comment header of the generated config file
GenHeader ==
  << "# zap-baseline rule configuration file\n",
     "# Change WARN to IGNORE to ignore rule or FAIL to fail if rule matches\n",
     "# Only the rule identifiers are used - the names are just for info\n",
     "# You can add your own messages to each rule by appending them after a tab on each line.\n" >>

\* one line of the generated config file
GenLine(key, rule) == key \o "\tWARN\t(" \o rule \o ")\n"

\* the order the rule lines are written in
GenOrderUnsorted(keys) ==
  LET RECURSIVE descending(_)
      descending(S) ==
        IF S = {} THEN <<>>
        ELSE LET m == CHOOSE k \in S : \A o \in S \ {k} : StrLess(o, k)
             IN <<m>> \o descending(S \ {m})
  IN descending(keys)

GenOrder(keys) == SortedKeys(keys)

\* the rule lines: for key, rule in sorted(all_dict.items())
GenLines(dict) ==
  LET order == GenOrder(DOMAIN dict)
  IN [i \in 1..Len(order) |-> GenLine(order[i], dict[order[i]])]

\* the inc_extra argument of each category pass
IgnoreIncExtra == TRUE

InfoIncExtra == info_unspecified

WarnIncExtraAlways == TRUE

WarnIncExtra == ~info_unspecified

FailIncExtra == TRUE

\* the four category passes, <<count, inprog_count>> each
IgnoreRules ==
  print_rules(alert_dict, config_dict, "IGNORE", IgnoreIncExtra, EmptyDict)

InfoRules ==
  print_rules(alert_dict, config_dict, "INFO", InfoIncExtra, in_progress_issues)

WarnRulesNoProgress ==
  print_rules(alert_dict, config_dict, "WARN", WarnIncExtra, EmptyDict)

WarnRules ==
  print_rules(alert_dict, config_dict, "WARN", WarnIncExtra, in_progress_issues)

FailRules ==
  print_rules(alert_dict, config_dict, "FAIL", FailIncExtra, in_progress_issues)

\* num_urls == 0
NoUrlsNever(n) == FALSE

NoUrls(n) == n = 0

\* the verdict at the end of main
ExitCodeWarnFirst(fail, warn, pass) ==
  IF warn > 0 THEN 2
  ELSE IF fail > 0 THEN 1
  ELSE IF pass > 0 THEN 0
  ELSE 3

ExitCode(fail, warn, pass) ==
  IF fail > 0 THEN 1
  ELSE IF warn > 0 THEN 2
  ELSE IF pass > 0 THEN 0
  ELSE 3

\* the steps inside the try block of main
TryBlock == {"scan", "urls", "alerts", "rules", "generate", "pass", "ignore",
             "info", "warn", "fail", "report", "shutdown"}

\* ---------------------------------------------------------------- actions
\* getopt, the option loop, the target checks and the /zap/wrk check: a bad
\* option, level or target, or an unmounted directory, ends with sys.exit(3)
ParseOptions ==
  /\ pc = "options"
  /\ \E ok \in BOOLEAN, docker \in BOOLEAN, info \in BOOLEAN :
       IF ok
         THEN /\ in_docker' = docker
              /\ info_unspecified' = info
              /\ pc' = "config"
              /\ UNCHANGED <<exit_code, exit_at>>
         ELSE /\ Exit(3, "usage")
              /\ UNCHANGED <<in_docker, info_unspecified>>
  /\ UNCHANGED <<config_dict, in_progress_issues, zap_started, container,
                 failed, load_failed, scan, counts>>

\* neither -c nor -u
NoConfig ==
  /\ pc = "config"
  /\ pc' = "progress"
  /\ UNCHANGED <<exit_code, exit_at, zap_started, container, failed,
                 load_failed, inputs, scan, counts>>

\* -c: open() is outside any try, so its IOError is not caught
LoadConfigFile ==
  /\ pc = "config"
  /\ \E readable \in BOOLEAN, lines \in ConfigFiles :
       IF readable
         THEN /\ config_dict' = load_config(lines, config_dict)
              /\ pc' = "progress"
              /\ UNCHANGED <<exit_code, exit_at, load_failed>>
         ELSE /\ UncaughtExit
              /\ load_failed' = TRUE
              /\ UNCHANGED config_dict
  /\ UNCHANGED <<in_docker, info_unspecified, in_progress_issues, zap_started,
                 container, failed, scan, counts>>

\* -u: any failure of the fetch is caught and ends with sys.exit(3)
LoadConfigUrl ==
  /\ pc = "config"
  /\ \E fetched \in BOOLEAN, lines \in ConfigFiles :
       IF fetched
         THEN /\ config_dict' = load_config(lines, config_dict)
              /\ pc' = "progress"
              /\ UNCHANGED <<exit_code, exit_at, load_failed>>
         ELSE /\ Exit(3, "config_url")
              /\ load_failed' = TRUE
              /\ UNCHANGED config_dict
  /\ UNCHANGED <<in_docker, info_unspecified, in_progress_issues, zap_started,
                 container, failed, scan, counts>>

\* no -p
NoProgress ==
  /\ pc = "progress"
  /\ pc' = "start"
  /\ UNCHANGED <<exit_code, exit_at, zap_started, container, failed,
                 load_failed, inputs, scan, counts>>

\* -p: open() is outside any try, so its IOError is not caught
LoadProgress ==
  /\ pc = "progress"
  /\ \E readable \in BOOLEAN, issues \in ProgressFiles :
       IF readable
         THEN /\ in_progress_issues' = LoadProgressIssues(issues, in_progress_issues)
              /\ pc' = "start"
              /\ UNCHANGED <<exit_code, exit_at, load_failed>>
         ELSE /\ UncaughtExit
              /\ load_failed' = TRUE
              /\ UNCHANGED in_progress_issues
  /\ UNCHANGED <<in_docker, info_unspecified, config_dict, zap_started,
                 container, failed, scan, counts>>

\* inside docker: start_zap, an OSError ends with sys.exit(3)
StartZap ==
  /\ pc = "start"
  /\ in_docker
  /\ \E started \in BOOLEAN :
       IF started
         THEN /\ zap_started' = TRUE
              /\ pc' = "scan"
              /\ UNCHANGED <<exit_code, exit_at>>
         ELSE /\ Exit(3, "start_zap")
              /\ UNCHANGED zap_started
  /\ UNCHANGED <<container, failed, load_failed, inputs, scan, counts>>

\* outside docker: start_docker_zap, then ipaddress_for_cid; an OSError of
\* either ends with sys.exit(3)
StartDockerZap ==
  /\ pc = "start"
  /\ ~in_docker
  /\ \E outcome \in {"start_fails", "ip_fails", "ok"} :
       CASE outcome = "start_fails" ->
              /\ Exit(3, "start_docker")
              /\ UNCHANGED <<zap_started, container>>
         [] outcome = "ip_fails" ->
              /\ zap_started' = TRUE
              /\ container' = "running"
              /\ Exit(3, "start_docker")
         [] outcome = "ok" ->
              /\ zap_started' = TRUE
              /\ container' = "running"
              /\ pc' = "scan"
              /\ UNCHANGED <<exit_code, exit_at>>
  /\ UNCHANGED <<failed, load_failed, inputs, scan, counts>>

\* connect to ZAP, import the context, open the target, spider, wait for the
\* passive scan
Scan ==
  /\ pc = "scan"
  /\ pc' = "urls"
  /\ UNCHANGED <<exit_code, exit_at, zap_started, container, failed,
                 load_failed, inputs, scan, counts>>

\* num_urls = len(zap.core.urls)
CountUrls ==
  /\ pc = "urls"
  /\ \E n \in UrlCounts :
       /\ num_urls' = n
       /\ pc' = IF NoUrls(n) THEN "shutdown" ELSE "alerts"
  /\ UNCHANGED <<exit_code, exit_at, zap_started, container, failed,
                 load_failed, inputs, alert_dict, all_rules, gen_file, counts>>

\* alert_dict = zap_get_alerts(...)
GetAlerts ==
  /\ pc = "alerts"
  /\ \E raw \in RawAlerts : alert_dict' = zap_get_alerts(raw, blacklist)
  /\ pc' = "rules"
  /\ UNCHANGED <<exit_code, exit_at, zap_started, container, failed,
                 load_failed, inputs, num_urls, all_rules, gen_file, counts>>

\* all_rules = zap.pscan.scanners
GetRules ==
  /\ pc = "rules"
  /\ \E rules \in Registries : all_rules' = rules
  /\ pc' = "generate"
  /\ UNCHANGED <<exit_code, exit_at, zap_started, container, failed,
                 load_failed, inputs, num_urls, alert_dict, gen_file, counts>>

\* if generate: write the config file (-g is read here)
Generate ==
  /\ pc = "generate"
  /\ \E generate \in BOOLEAN :
       gen_file' = IF generate
                     THEN GenHeader \o GenLines(AllDict(all_rules, EmptyDict))
                     ELSE gen_file
  /\ pc' = "pass"
  /\ UNCHANGED <<exit_code, exit_at, zap_started, container, failed,
                 load_failed, inputs, num_urls, alert_dict, all_rules, counts>>

\* pass_count = len(pass_dict)
PassRules ==
  /\ pc = "pass"
  /\ pass_count' = Cardinality(DOMAIN PassDict(all_rules, alert_dict, EmptyDict))
  /\ pc' = "ignore"
  /\ UNCHANGED <<exit_code, exit_at, zap_started, container, failed,
                 load_failed, inputs, scan, warn_count, fail_count, info_count,
                 ignore_count, warn_inprog_count, fail_inprog_count>>

\* ignore_count, not_used = print_rules(... 'IGNORE' ...)
IgnorePass ==
  /\ pc = "ignore"
  /\ ignore_count' = IgnoreRules[1]
  /\ pc' = "info"
  /\ UNCHANGED <<exit_code, exit_at, zap_started, container, failed,
                 load_failed, inputs, scan, pass_count, warn_count, fail_count,
                 info_count, warn_inprog_count, fail_inprog_count>>

\* info_count, not_used = print_rules(... 'INFO' ...)
InfoPass ==
  /\ pc = "info"
  /\ info_count' = InfoRules[1]
  /\ pc' = "warn"
  /\ UNCHANGED <<exit_code, exit_at, zap_started, container, failed,
                 load_failed, inputs, scan, pass_count, warn_count, fail_count,
                 ignore_count, warn_inprog_count, fail_inprog_count>>

\* warn_count, warn_inprog_count = print_rules(... 'WARN' ...)
WarnPass ==
  /\ pc = "warn"
  /\ warn_count' = WarnRules[1]
  /\ warn_inprog_count' = WarnRules[2]
  /\ pc' = "fail"
  /\ UNCHANGED <<exit_code, exit_at, zap_started, container, failed,
                 load_failed, inputs, scan, pass_count, fail_count, info_count,
                 ignore_count, fail_inprog_count>>

\* fail_count, fail_inprog_count = print_rules(... 'FAIL' ...)
FailPass ==
  /\ pc = "fail"
  /\ fail_count' = FailRules[1]
  /\ fail_inprog_count' = FailRules[2]
  /\ pc' = "report"
  /\ UNCHANGED <<exit_code, exit_at, zap_started, container, failed,
                 load_failed, inputs, scan, pass_count, warn_count, info_count,
                 ignore_count, warn_inprog_count>>

\* the HTML, Markdown and XML reports and the summary line
Report ==
  /\ pc = "report"
  /\ pc' = "shutdown"
  /\ UNCHANGED <<exit_code, exit_at, zap_started, container, failed,
                 load_failed, inputs, scan, counts>>

\* zap.core.shutdown()
Shutdown ==
  /\ pc = "shutdown"
  /\ pc' = "finish"
  /\ UNCHANGED <<exit_code, exit_at, zap_started, container, failed,
                 load_failed, inputs, scan, counts>>

\* a step of the try block raises IOError: except IOError
HandleIOError ==
  /\ pc \in TryBlock
  /\ failed' = TRUE
  /\ pc' = "finish"
  /\ UNCHANGED <<exit_code, exit_at, zap_started, container, load_failed,
                 inputs, scan, counts>>

\* a step of the try block raises anything else: the bare except
HandleOtherError ==
  /\ pc \in TryBlock
  /\ failed' = TRUE
  /\ pc' = "finish"
  /\ UNCHANGED <<exit_code, exit_at, zap_started, container, load_failed,
                 inputs, scan, counts>>

\* stop_docker(cid) when not running in docker, then the verdict
Finish ==
  /\ pc = "finish"
  /\ container' = IF ~in_docker THEN "stopped" ELSE container
  /\ Exit(ExitCode(fail_count, warn_count, pass_count), "main_end")
  /\ UNCHANGED <<zap_started, failed, load_failed, inputs, scan, counts>>

Next ==
  \/ ParseOptions
  \/ NoConfig
  \/ LoadConfigFile
  \/ LoadConfigUrl
  \/ NoProgress
  \/ LoadProgress
  \/ StartZap
  \/ StartDockerZap
  \/ Scan
  \/ CountUrls
  \/ GetAlerts
  \/ GetRules
  \/ Generate
  \/ PassRules
  \/ IgnorePass
  \/ InfoPass
  \/ WarnPass
  \/ FailPass
  \/ Report
  \/ Shutdown
  \/ HandleIOError
  \/ HandleOtherError
  \/ Finish

Spec == Init /\ [][Next]_vars

\* ------------------------------------------------------------- properties
\* the rule ids of alert_dict with the explicit action `level`
Explicit(level) ==
  {k \in DOMAIN alert_dict : k \in DOMAIN config_dict /\ config_dict[k] = level}

\* the rule ids of alert_dict with no explicit action
Unconfigured == DOMAIN alert_dict \ DOMAIN config_dict

\* the rule ids recorded as in progress
InProgressIds == DOMAIN in_progress_issues

\* the number of findings of the rule ids S
Findings(S) == SumOver(alert_dict, S)

\* the ids of the registry, and the denied ones among them
RegistryIds == {all_rules[i].id : i \in 1..Len(all_rules)}

DeniedIds == {id \in RegistryIds : \E i \in 1..Len(blacklist) : blacklist[i] = id}

\* pass_count has been computed and no step failed since
PassCounted ==
  /\ num_urls > 0
  /\ \/ pc \in {"ignore", "info", "warn", "fail", "report", "shutdown"}
     \/ pc \in {"finish", "exit"} /\ ~failed

\* the four category passes have run and no step failed since
Classified ==
  /\ num_urls > 0
  /\ \/ pc \in {"report", "shutdown"}
     \/ pc \in {"finish", "exit"} /\ ~failed

\* the rule ids each category pass of main includes
IgnoreKeys == rules_included(alert_dict, config_dict, "IGNORE", IgnoreIncExtra)

InfoKeys == rules_included(alert_dict, config_dict, "INFO", InfoIncExtra)

WarnKeys == rules_included(alert_dict, config_dict, "WARN", WarnIncExtra)

FailKeys == rules_included(alert_dict, config_dict, "FAIL", FailIncExtra)

\* C1: when the process ends at the end of main, the exit code follows the
\* final counts in strict precedence: 1 if fail_count > 0; else 2 if
\* warn_count > 0; else 0 if pass_count > 0; else 3.  So exit code 0 needs a
\* passed rule and no new FAIL and no new WARN, and all-zero counts give 3.
C1_VerdictPrecedence ==
  exit_at = "main_end" =>
    /\ fail_count > 0 => exit_code = 1
    /\ fail_count = 0 /\ warn_count > 0 => exit_code = 2
    /\ fail_count = 0 /\ warn_count = 0 /\ pass_count > 0 => exit_code = 0
    /\ fail_count = 0 /\ warn_count = 0 /\ pass_count = 0 => exit_code = 3
    /\ exit_code = 0 => pass_count > 0 /\ fail_count = 0 /\ warn_count = 0

\* a run that ends at the end of main with new FAILs and new WARNs exits 1
C1_Witness ==
  /\ exit_at = "main_end"
  /\ fail_count > 0
  /\ warn_count > 0
  /\ exit_code = 1

\* C2: when the configuration or the progress file cannot be loaded, the
\* process ends with exit code 3, before ZAP is started and before any
\* classification.
C2_LoadFailureExits3 ==
  load_failed /\ pc = "exit" =>
    /\ exit_code = 3
    /\ ~zap_started
    /\ num_urls = -1

\* C3: a run in which a handler of main caught an exception ends with exit
\* code 3, never with 0, 1 or 2.
C3_FailedRunExits3 ==
  failed /\ pc = "exit" => exit_code = 3

\* C4: only issues in state "inprogress" are recorded as in progress; the
\* findings of a WARN or FAIL rule whose id is recorded are counted in the
\* in-progress count and not in the new count; and the exit code ignores the
\* in-progress counts: 1 if a FAIL rule is not in progress, else 2 if a WARN
\* rule is not in progress, else 0 if a rule passed, else 3.
C4_InProgressNotNew ==
  /\ \A k \in InProgressIds :
       in_progress_issues[k].id = k /\ in_progress_issues[k].state = "inprogress"
  /\ Classified =>
       LET W == Explicit("WARN") \cup (IF info_unspecified THEN {} ELSE Unconfigured)
           F == Explicit("FAIL")
       IN /\ warn_inprog_count = Findings(W \cap InProgressIds)
          /\ warn_count = Findings(W \ InProgressIds)
          /\ fail_inprog_count = Findings(F \cap InProgressIds)
          /\ fail_count = Findings(F \ InProgressIds)
          /\ pc = "exit" =>
               exit_code = IF F \ InProgressIds # {} THEN 1
                           ELSE IF W \ InProgressIds # {} THEN 2
                           ELSE IF pass_count > 0 THEN 0
                           ELSE 3

\* a run whose only WARN findings belong to an in-progress rule id, with a
\* passing rule, exits 0
C4_Witness ==
  /\ Classified
  /\ pc = "exit"
  /\ warn_inprog_count > 0
  /\ fail_inprog_count = 0
  /\ warn_count = 0
  /\ fail_count = 0
  /\ pass_count > 0
  /\ exit_code = 0

\* C5: pass_count is the number of distinct registry rule ids that are not
\* denied and have no entry in alert_dict; with no findings it is the size
\* of the registry minus the number of denied ids in it.
C5_PassCount ==
  PassCounted =>
    /\ pass_count = Cardinality((RegistryIds \ DeniedIds) \ DOMAIN alert_dict)
    /\ alert_dict = EmptyDict =>
         pass_count = Len(all_rules) - Cardinality(DeniedIds)

\* no findings, a registry of three rules, one of them denied: two passes
C5_Witness ==
  /\ PassCounted
  /\ alert_dict = EmptyDict
  /\ Len(all_rules) = 3
  /\ DeniedIds # {}
  /\ pass_count = 2

\* C6: a rule with findings and no explicit action is included in exactly one
\* of the four category passes: WARN when -i is off, INFO when it is on,
\* never IGNORE or FAIL; the IGNORE and FAIL passes include exactly the rules
\* whose explicit action is IGNORE or FAIL, and the counts of the passes are
\* the findings of those rules.
C6_DefaultExclusive ==
  /\ \A k \in Unconfigured :
       /\ k \notin IgnoreKeys
       /\ k \notin FailKeys
       /\ k \in WarnKeys <=> ~info_unspecified
       /\ k \in InfoKeys <=> info_unspecified
  /\ IgnoreKeys = Explicit("IGNORE")
  /\ FailKeys = Explicit("FAIL")
  /\ Classified =>
       /\ ignore_count = Findings(Explicit("IGNORE"))
       /\ fail_count + fail_inprog_count = Findings(Explicit("FAIL"))
       /\ warn_count + warn_inprog_count =
            Findings(Explicit("WARN") \cup (IF info_unspecified THEN {} ELSE Unconfigured))
       /\ info_count =
            Findings((Explicit("INFO") \cup (IF info_unspecified THEN Unconfigured ELSE {}))
                       \ InProgressIds)

\* with -i, an unconfigured rule with findings is counted as INFO and not as WARN
C6_Witness ==
  /\ Classified
  /\ info_unspecified
  /\ Unconfigured \ InProgressIds # {}
  /\ info_count > 0
  /\ warn_count = 0
  /\ warn_inprog_count = 0

\* C7: the generated config file is the comment header followed by exactly
\* one line per registry rule that is not denied, in ascending order of the
\* rule id (ids are strings: Python's str order), each line
\* <id> TAB WARN TAB (<name>); no line belongs to a denied rule.
C7_GeneratedConfig ==
  gen_file # <<>> =>
    LET ids == RegistryIds \ DeniedIds
        n == Cardinality(ids)
    IN /\ Len(gen_file) = 4 + n
       /\ \A i \in 1..4 : gen_file[i] = GenHeader[i]
       /\ \E order \in [1..n -> ids] :
            /\ \A i \in 1..(n - 1) : StrLess(order[i], order[i + 1])
            /\ \A i \in 1..n :
                 gen_file[4 + i] =
                   order[i] \o "\tWARN\t(" \o RuleName(order[i]) \o ")\n"
       /\ \A i \in 1..Len(gen_file) : \A d \in DeniedIds, action \in ConfigActions :
            gen_file[i] # d \o "\t" \o action \o "\t(" \o RuleName(d) \o ")\n"

\* a registry listing "2", a denied rule and "10": two lines, "10" first
C7_Witness ==
  /\ Len(gen_file) = 6
  /\ Len(all_rules) = 3
  /\ all_rules[1].id = "2"
  /\ DeniedIds # {}
  /\ gen_file[5] = "10\tWARN\t(Cookie No HttpOnly Flag)\n"

\* C8: the INFO count covers every finding of every rule classified INFO,
\* whether or not the rule id is recorded as in progress.
C8_InfoNotSplit ==
  Classified => info_count = Findings(InfoKeys)

\* C9: once the scan reports zero URLs no alerts are fetched, no registry is
\* read, no config file is generated, every count stays zero and the process
\* exits with code 3.
C9_NoUrlsIndeterminate ==
  num_urls = 0 =>
    /\ alert_dict = EmptyDict
    /\ all_rules = <<>>
    /\ gen_file = <<>>
    /\ \A i \in 1..Len(counts) : counts[i] = 0
    /\ pc = "exit" => exit_code = 3

\* a scan that found no URLs and ran to the end of main without an error
C9_Witness ==
  /\ num_urls = 0
  /\ ~failed
  /\ pc = "exit"
  /\ exit_at = "main_end"
  /\ exit_code = 3

\* C10: no container started by the script is still running when the
\* process has ended.
C10_ContainerStoppedAtExit ==
  pc = "exit" => container # "running"

====
